---- MODULE Spec2Model ----
(***************************************************************************)
(* Loan & reservation lifecycle engine of the library system.              *)
(*                                                                         *)
(* The store is the relational state kept by the PostgreSQL repositories   *)
(* (tables users, books, book_copies, loans, reservations,                 *)
(* overdue_records).  Each service operation (LoanService,                 *)
(* ReservationService) is one action that runs the whole handler against   *)
(* the store.  Time is counted in ticks, TicksPerDay ticks to a day.       *)
(***************************************************************************)
EXTENDS Integers, Sequences, FiniteSets, TLC

\* ------------------------------------------------------------------ bounds
MaxReservations == 3
MaxQueue == 4
MaxCancels == 1
MaxLoans == 2
MaxDays == 15
MaxQueueDays == 8
MaxSpecLoans == 1
MaxSpecReservations == 2
MaxLendingReservations == 1
MaxOverdueDays == 16
TicksPerDay == 2

\* ------------------------------------------------------- program constants
RESERVATION_EXPIRY_DAYS == 7
DEFAULT_LOAN_DURATION_DAYS == 14

\* ------------------------------------------------------------ the universe
NULL == -1

Users == {"u1", "u2", "u3", "u4"}
UserIds == Users \cup {"ux"}

Books == {"b1", "b2"}
BookIds == Books \cup {"bx"}

Copies == {"c1", "c2", "c3"}
CopyIds == Copies \cup {"cx"}

CopyBook == [c \in Copies |-> IF c = "c3" THEN "b2" ELSE "b1"]

loanLimit == [u \in Users |-> IF u = "u1" THEN 1 ELSE 2]

CopyStatuses == {"AVAILABLE", "BORROWED", "RESERVED", "MAINTENANCE"}
ReservationStatuses == {"PENDING", "NOTIFIED", "FULFILLED", "EXPIRED", "CANCELLED"}
ActiveStatuses == {"PENDING", "NOTIFIED"}

\* Copies are created AVAILABLE; catalogue management may have put some of
\* them in MAINTENANCE or RESERVED before the engine runs.
InitialCopyStatuses ==
    { [c \in Copies |-> "AVAILABLE"],
      [c \in Copies |-> CASE c = "c1" -> "MAINTENANCE"
                          [] c = "c2" -> "RESERVED"
                          [] c = "c3" -> "MAINTENANCE"] }

\* The clock moves in steps of one tick more than the reservation expiry.
ClockSteps == {RESERVATION_EXPIRY_DAYS * TicksPerDay + 1}

\* Callers of the small specification.
FewUserIds == {"u1", "u2", "ux"}
ManyUserIds == {"u1", "u2", "u3", "ux"}

VARIABLES now, copies, loans, overdueRecords, reservations, sweeps, calls,
          last

vars ==
    <<now, copies, loans, overdueRecords, reservations, sweeps, calls, last>>

\* --------------------------------------------------------------- utilities
Range(s) == { s[i] : i \in DOMAIN s }

NoReservation ==
    [id |-> 0, userId |-> "none", bookId |-> "none",
     reservedAt |-> NULL, notifiedAt |-> NULL, expiresAt |-> NULL,
     status |-> "none", queuePosition |-> 0]

NoLoan ==
    [id |-> 0, userId |-> "none", bookCopyId |-> "none", borrowedAt |-> NULL,
     dueDate |-> NULL, returnedAt |-> NULL]

NoOverdueRecord ==
    [id |-> 0, loanId |-> 0, overdueDays |-> NULL, recordedAt |-> NULL]

NoLast ==
    [op |-> "init", result |-> "none", userId |-> "none", bookId |-> "none",
     copyId |-> "none", id |-> 0, reservation |-> NoReservation,
     loan |-> NoLoan, isOverdue |-> FALSE, overdueDays |-> NULL,
     overdueRecord |-> NoOverdueRecord,
     expiredCount |-> 0, nextNotifiedReservations |-> <<>>,
     limit |-> NULL, currentCount |-> NULL, fault |-> "none"]

\* ------------------------------------------------- reservation repository
\* status IN ('PENDING', 'NOTIFIED')
IsActive(r) == r.status \in ActiveStatuses

FindActiveByBookId(res, bookId) ==
    { i \in DOMAIN res : res[i].bookId = bookId /\ IsActive(res[i]) }

CountActiveByBookId(res, bookId) ==
    Cardinality({ i \in DOMAIN res : res[i].bookId = bookId /\ IsActive(res[i]) })

\* Mutant: only PENDING reservations count as existing.
HasActiveReservation_PendingOnly(res, userId, bookId) ==
    Cardinality({ i \in DOMAIN res :
        /\ res[i].userId = userId
        /\ res[i].bookId = bookId
        /\ res[i].status = "PENDING" }) > 0

HasActiveReservation(res, userId, bookId) ==
    Cardinality({ i \in DOMAIN res :
        /\ res[i].userId = userId
        /\ res[i].bookId = bookId
        /\ res[i].status \in ActiveStatuses }) > 0

\* COALESCE($2, notified_at)
Coalesce(new, old) == IF new # NULL THEN new ELSE old

\* Mutant: the timestamps are overwritten with the parameters, null or not.
UpdateStatus_NoCoalesce(res, id, status, notifiedAt, expiresAt) ==
    [res EXCEPT ![id] = [@ EXCEPT
        !.status = status,
        !.notifiedAt = notifiedAt,
        !.expiresAt = expiresAt]]

UpdateStatus(res, id, status, notifiedAt, expiresAt) ==
    [res EXCEPT ![id] = [@ EXCEPT
        !.status = status,
        !.notifiedAt = Coalesce(notifiedAt, @),
        !.expiresAt = Coalesce(expiresAt, @)]]

\* Mutant: rows already EXPIRED are found again.
FindExpiredReservations_AnyStatus(res, t) ==
    { i \in DOMAIN res :
        /\ res[i].status \in {"NOTIFIED", "EXPIRED"}
        /\ res[i].expiresAt # NULL
        /\ res[i].expiresAt < t }

\* status = 'NOTIFIED' AND expires_at < NOW()
FindExpiredReservations(res, t) ==
    { i \in DOMAIN res :
        /\ res[i].status = "NOTIFIED"
        /\ res[i].expiresAt # NULL
        /\ res[i].expiresAt < t }

\* INSERT INTO reservations (user_id, book_id, queue_position); the other
\* columns take the defaults of the table: reserved_at is NOW().
ReservationCreate(res, userId, bookId, queuePosition) ==
    Append(res,
        [id |-> Len(res) + 1, userId |-> userId, bookId |-> bookId,
         reservedAt |-> now, notifiedAt |-> NULL, expiresAt |-> NULL,
         status |-> "PENDING", queuePosition |-> queuePosition])

\* ---------------------------------------------------- reservation service
\* Mutant: the PENDING row with the highest position is taken.
FirstPending_Last(res, bookId) ==
    LET pending == { i \in FindActiveByBookId(res, bookId) :
                        res[i].status = "PENDING" }
    IN { i \in pending :
            \A j \in pending : res[i].queuePosition >= res[j].queuePosition }

\* Mutant: the head of the active list is taken whatever its status.
FirstPending_AnyStatus(res, bookId) ==
    LET active == FindActiveByBookId(res, bookId)
    IN { i \in active :
            \A j \in active : res[i].queuePosition <= res[j].queuePosition }

\* reservations.find((r) => r.status === 'PENDING') over the list ordered
\* by queue_position: rows with equal queue_position come in any order, so
\* every PENDING row of minimal position can be the one found.
FirstPending(res, bookId) ==
    LET pending == { i \in FindActiveByBookId(res, bookId) :
                        res[i].status = "PENDING" }
    IN { i \in pending :
            \A j \in pending : res[i].queuePosition <= res[j].queuePosition }

\* Mutant: the expiry is not passed to the update.
NotifyReservation_NoExpiry(res, id, t) ==
    UpdateStatus(res, id, "NOTIFIED", t, NULL)

NotifyReservation(res, id, t) ==
    LET notifiedAt == t
        expiresAt == notifiedAt + RESERVATION_EXPIRY_DAYS * TicksPerDay
    IN UpdateStatus(res, id, "NOTIFIED", notifiedAt, expiresAt)

\* Mutant: every() instead of some().
HasAvailableCopy_Every(cs, bookId) ==
    \A c \in Copies : CopyBook[c] = bookId => cs[c] = "AVAILABLE"

HasAvailableCopy(cs, bookId) ==
    \E c \in Copies : CopyBook[c] = bookId /\ cs[c] = "AVAILABLE"

\* Mutant: the copies are looked at before the existing reservation.
CreateReservationResult_AvailableFirst(userId, bookId) ==
    IF userId \notin Users THEN "USER_NOT_FOUND"
    ELSE IF bookId \notin Books THEN "BOOK_NOT_FOUND"
    ELSE IF HasAvailableCopy(copies, bookId) THEN "BOOK_AVAILABLE"
    ELSE IF HasActiveReservation(reservations, userId, bookId)
        THEN "ALREADY_RESERVED"
    ELSE "ok"

CreateReservationResult(userId, bookId) ==
    IF userId \notin Users THEN "USER_NOT_FOUND"
    ELSE IF bookId \notin Books THEN "BOOK_NOT_FOUND"
    ELSE IF HasActiveReservation(reservations, userId, bookId)
        THEN "ALREADY_RESERVED"
    ELSE IF HasAvailableCopy(copies, bookId) THEN "BOOK_AVAILABLE"
    ELSE "ok"

\* Mutant: the row is inserted before the reservation and copy checks.
CreateReservation_InsertFirst(userId, bookId) ==
    LET result == CreateReservationResult(userId, bookId)
        queuePosition == CountActiveByBookId(reservations, bookId) + 1
        created == ReservationCreate(reservations, userId, bookId,
                                     queuePosition)
    IN /\ reservations' =
            IF result \in {"ok", "ALREADY_RESERVED", "BOOK_AVAILABLE"}
            THEN created ELSE reservations
       /\ last' = [NoLast EXCEPT
                     !.op = "createReservation", !.result = result,
                     !.reservation = IF result = "ok"
                                     THEN created[Len(created)]
                                     ELSE NoReservation]
       /\ UNCHANGED <<now, copies, loans, overdueRecords, sweeps, calls>>

CreateReservation(userId, bookId) ==
    LET result == CreateReservationResult(userId, bookId)
        queuePosition == CountActiveByBookId(reservations, bookId) + 1
        created == ReservationCreate(reservations, userId, bookId,
                                     queuePosition)
    IN /\ reservations' = IF result = "ok" THEN created ELSE reservations
       /\ last' = [NoLast EXCEPT
                     !.op = "createReservation", !.result = result,
                     !.reservation = IF result = "ok"
                                     THEN created[Len(created)]
                                     ELSE NoReservation]
       /\ UNCHANGED <<now, copies, loans, overdueRecords, sweeps, calls>>

ProcessReturnedBook(bookId) ==
    LET active == FindActiveByBookId(reservations, bookId)
        first == FirstPending(reservations, bookId)
    IN /\ IF active = {} \/ first = {}
          THEN /\ reservations' = reservations
               /\ last' = [NoLast EXCEPT !.op = "processReturnedBook",
                             !.result = "ok", !.bookId = bookId]
          ELSE \E id \in first :
               /\ reservations' = NotifyReservation(reservations, id, now)
               /\ last' = [NoLast EXCEPT !.op = "processReturnedBook",
                             !.result = "ok", !.bookId = bookId,
                             !.reservation = reservations'[id]]
       /\ UNCHANGED <<now, copies, loans, overdueRecords, sweeps, calls>>

\* Mutant: the next PENDING reservation is reported but not notified.
ExpireStep_NoNotify(st, id, t) ==
    LET bookId == st.res[id].bookId
        expired == UpdateStatus(st.res, id, "EXPIRED", NULL, NULL)
        nextPending == FirstPending(expired, bookId)
    IN IF bookId \in st.processedBookIds
       THEN { [st EXCEPT !.res = expired] }
       ELSE IF nextPending = {}
       THEN { [st EXCEPT !.res = expired,
                 !.processedBookIds = @ \cup {bookId}] }
       ELSE { [res |-> expired,
               nextNotifiedReservations |->
                   Append(st.nextNotifiedReservations, expired[n]),
               processedBookIds |-> st.processedBookIds \cup {bookId}]
              : n \in nextPending }

\* Mutant: processedBookIds is not consulted.
ExpireStep_NoProcessedCheck(st, id, t) ==
    LET bookId == st.res[id].bookId
        expired == UpdateStatus(st.res, id, "EXPIRED", NULL, NULL)
        nextPending == FirstPending(expired, bookId)
    IN IF nextPending = {}
       THEN { [st EXCEPT !.res = expired,
                 !.processedBookIds = @ \cup {bookId}] }
       ELSE { [res |-> NotifyReservation(expired, n, t),
               nextNotifiedReservations |->
                   Append(st.nextNotifiedReservations,
                          NotifyReservation(expired, n, t)[n]),
               processedBookIds |-> st.processedBookIds \cup {bookId}]
              : n \in nextPending }

\* One iteration of the loop over expiredReservations.  st is the loop
\* state: the reservations table, nextNotifiedReservations and
\* processedBookIds.  The result is the set of possible next loop states.
ExpireStep(st, id, t) ==
    LET bookId == st.res[id].bookId
        expired == UpdateStatus(st.res, id, "EXPIRED", NULL, NULL)
        nextPending == FirstPending(expired, bookId)
    IN IF bookId \in st.processedBookIds
       THEN { [st EXCEPT !.res = expired] }
       ELSE IF nextPending = {}
       THEN { [st EXCEPT !.res = expired,
                 !.processedBookIds = @ \cup {bookId}] }
       ELSE { [res |-> NotifyReservation(expired, n, t),
               nextNotifiedReservations |->
                   Append(st.nextNotifiedReservations,
                          NotifyReservation(expired, n, t)[n]),
               processedBookIds |-> st.processedBookIds \cup {bookId}]
              : n \in nextPending }

\* for (const reservation of expiredReservations): the rows come back from
\* the query in no guaranteed order.
RECURSIVE ExpireLoop(_, _, _)
ExpireLoop(todo, st, t) ==
    IF todo = {} THEN {st}
    ELSE UNION { UNION { ExpireLoop(todo \ {id}, s2, t)
                         : s2 \in ExpireStep(st, id, t) }
                 : id \in todo }

ExpireOverdueReservations ==
    LET expiredReservations == FindExpiredReservations(reservations, now)
        start == [res |-> reservations, nextNotifiedReservations |-> <<>>,
                  processedBookIds |-> {}]
    IN /\ \E st \in ExpireLoop(expiredReservations, start, now) :
            /\ reservations' = st.res
            /\ last' = [NoLast EXCEPT !.op = "expireOverdueReservations",
                          !.result = "ok",
                          !.expiredCount = Cardinality(expiredReservations),
                          !.nextNotifiedReservations =
                              st.nextNotifiedReservations]
       /\ UNCHANGED <<now, copies, loans, overdueRecords, sweeps, calls>>

\* The store calls of the reservation service that may return an error:
\* reservationRepository.updateStatus returns a Result.
\*   updateStatus  in processReturnedBook, the update to NOTIFIED fails;
\*   expire        in the sweep, every update to EXPIRED fails;
\*   notify        in the sweep, every update to NOTIFIED fails.
ProcessReturnedBookFaults == {"none", "updateStatus"}

ExpireFaults == {"none", "expire", "notify"}

\* processReturnedBook with the outcome of its store calls: when the update
\* fails, notifyReservation returns null and the function returns
\* ok({ notifiedReservation: null }).
ProcessReturnedBookStore(bookId, fault) ==
    IF fault = "updateStatus" /\ FirstPending(reservations, bookId) # {}
    THEN /\ reservations' = reservations
         /\ last' = [NoLast EXCEPT !.op = "processReturnedBook",
                       !.result = "ok", !.bookId = bookId, !.fault = fault]
         /\ UNCHANGED <<now, copies, loans, overdueRecords, sweeps, calls>>
    ELSE ProcessReturnedBook(bookId)

\* One iteration of the loop of the sweep when store calls fail: the result
\* of the update to EXPIRED is not looked at, and a promotion that fails is
\* not pushed to nextNotifiedReservations.
ExpireStepStore(st, id, t, fault) ==
    LET bookId == st.res[id].bookId
        expired == IF fault = "expire" THEN st.res
                   ELSE UpdateStatus(st.res, id, "EXPIRED", NULL, NULL)
        nextPending == FirstPending(expired, bookId)
    IN IF fault = "none" THEN ExpireStep(st, id, t)
       ELSE IF bookId \in st.processedBookIds
       THEN { [st EXCEPT !.res = expired] }
       ELSE IF nextPending = {} \/ fault = "notify"
       THEN { [st EXCEPT !.res = expired,
                 !.processedBookIds = @ \cup {bookId}] }
       ELSE { [res |-> NotifyReservation(expired, n, t),
               nextNotifiedReservations |->
                   Append(st.nextNotifiedReservations,
                          NotifyReservation(expired, n, t)[n]),
               processedBookIds |-> st.processedBookIds \cup {bookId}]
              : n \in nextPending }

RECURSIVE ExpireLoopStore(_, _, _, _)
ExpireLoopStore(todo, st, t, fault) ==
    IF todo = {} THEN {st}
    ELSE UNION { UNION { ExpireLoopStore(todo \ {id}, s2, t, fault)
                         : s2 \in ExpireStepStore(st, id, t, fault) }
                 : id \in todo }

\* expireOverdueReservations with the outcome of its store calls.
ExpireOverdueReservationsStore(fault) ==
    LET expiredReservations == FindExpiredReservations(reservations, now)
        start == [res |-> reservations, nextNotifiedReservations |-> <<>>,
                  processedBookIds |-> {}]
    IN /\ \E st \in ExpireLoopStore(expiredReservations, start, now, fault) :
            /\ reservations' = st.res
            /\ last' = [NoLast EXCEPT !.op = "expireOverdueReservations",
                          !.result = "ok",
                          !.expiredCount = Cardinality(expiredReservations),
                          !.nextNotifiedReservations =
                              st.nextNotifiedReservations,
                          !.fault = IF expiredReservations = {} THEN "none"
                                    ELSE fault]
       /\ UNCHANGED <<now, copies, loans, overdueRecords, sweeps, calls>>

\* Mutant: the cancellation promotes the next PENDING reservation.
CancelReservation_Promote(id) ==
    /\ id \in DOMAIN reservations
    /\ LET cancelled ==
               UpdateStatus(reservations, id, "CANCELLED", NULL, NULL)
           first == FirstPending(cancelled, reservations[id].bookId)
       IN IF first = {}
          THEN reservations' = cancelled
          ELSE \E n \in first :
                  reservations' = NotifyReservation(cancelled, n, now)
    /\ last' = [NoLast EXCEPT !.op = "cancelReservation",
                  !.result = "ok", !.id = id]
    /\ UNCHANGED <<now, copies, loans, overdueRecords, sweeps, calls>>

CancelReservation(id) ==
    /\ IF id \notin DOMAIN reservations
       THEN /\ reservations' = reservations
            /\ last' = [NoLast EXCEPT !.op = "cancelReservation",
                          !.result = "RESERVATION_NOT_FOUND"]
       ELSE /\ Cardinality({ i \in DOMAIN reservations :
                    reservations[i].status = "CANCELLED" }) < MaxCancels
            /\ reservations' =
                  UpdateStatus(reservations, id, "CANCELLED", NULL, NULL)
            /\ last' = [NoLast EXCEPT !.op = "cancelReservation",
                          !.result = "ok", !.id = id]
    /\ UNCHANGED <<now, copies, loans, overdueRecords, sweeps, calls>>

\* ------------------------------------------- expiry sweeps run concurrently
\* expireOverdueReservations() awaits each store call, so the store calls of
\* two sweeps interleave.  Each sweep p keeps the locals of the function in
\* sweeps[p]; one action is one store call with the code up to the next one.
Sweepers == {"s1", "s2"}

IdleSweep ==
    [pc |-> "idle", expiredReservations |-> {}, todo |-> {}, expired |-> {},
     processedBookIds |-> {}, nextNotifiedReservations |-> <<>>,
     bookId |-> "none", nextPending |-> 0]

\* Mutant: the loop goes round again when the list is exhausted.
SweepLoop_Again(todo) == "expire"

\* Where the loop goes on after an iteration.
SweepLoop(todo) == IF todo = {} THEN "done" ELSE "expire"

\* const expiredReservations = await findExpiredReservations()
SweepStart(p) ==
    LET expiredReservations == FindExpiredReservations(reservations, now)
    IN /\ sweeps[p].pc = "idle"
       /\ sweeps' = [sweeps EXCEPT ![p] = [IdleSweep EXCEPT
                        !.pc = SweepLoop(expiredReservations),
                        !.expiredReservations = expiredReservations,
                        !.todo = expiredReservations]]
       /\ last' = [NoLast EXCEPT !.op = "sweepStart"]
       /\ UNCHANGED <<now, copies, loans, overdueRecords, reservations, calls>>

\* await updateStatus(reservation.id, 'EXPIRED'), then the test of
\* processedBookIds.
SweepExpire(p) ==
    /\ sweeps[p].pc = "expire"
    /\ \E id \in sweeps[p].todo :
        LET bookId == reservations[id].bookId
            todo == sweeps[p].todo \ {id}
            seen == bookId \in sweeps[p].processedBookIds
        IN /\ reservations' =
                 UpdateStatus(reservations, id, "EXPIRED", NULL, NULL)
           /\ sweeps' = [sweeps EXCEPT ![p] = [@ EXCEPT
                            !.todo = todo,
                            !.expired = @ \cup {id},
                            !.processedBookIds = @ \cup {bookId},
                            !.bookId = IF seen THEN "none" ELSE bookId,
                            !.pc = IF seen THEN SweepLoop(todo) ELSE "find"]]
    /\ last' = [NoLast EXCEPT !.op = "sweepExpire"]
    /\ UNCHANGED <<now, copies, loans, overdueRecords, calls>>

\* const activeReservations = await findActiveByBookId(reservation.bookId)
SweepFind(p) ==
    LET nextPending == FirstPending(reservations, sweeps[p].bookId)
    IN /\ sweeps[p].pc = "find"
       /\ IF nextPending = {}
          THEN sweeps' = [sweeps EXCEPT ![p] = [@ EXCEPT
                            !.bookId = "none",
                            !.pc = SweepLoop(sweeps[p].todo)]]
          ELSE \E n \in nextPending :
                  sweeps' = [sweeps EXCEPT ![p] = [@ EXCEPT
                               !.bookId = "none",
                               !.nextPending = n, !.pc = "notify"]]
       /\ last' = [NoLast EXCEPT !.op = "sweepFind"]
       /\ UNCHANGED <<now, copies, loans, overdueRecords, reservations, calls>>

\* const notified = await notifyReservation(nextPending)
SweepNotify(p) ==
    LET n == sweeps[p].nextPending
        notified == NotifyReservation(reservations, n, now)
    IN /\ sweeps[p].pc = "notify"
       /\ reservations' = notified
       /\ sweeps' = [sweeps EXCEPT ![p] = [@ EXCEPT
                        !.nextNotifiedReservations = Append(@, notified[n]),
                        !.nextPending = 0,
                        !.pc = SweepLoop(sweeps[p].todo)]]
       /\ last' = [NoLast EXCEPT !.op = "sweepNotify"]
       /\ UNCHANGED <<now, copies, loans, overdueRecords, calls>>

\* return ok({ expiredCount: expiredReservations.length, ... })
SweepReturn(p) ==
    /\ sweeps[p].pc = "done"
    /\ sweeps' = [sweeps EXCEPT ![p] = IdleSweep]
    /\ last' = [NoLast EXCEPT !.op = "expireOverdueReservations",
                  !.result = "ok",
                  !.expiredCount =
                      Cardinality(sweeps[p].expiredReservations),
                  !.nextNotifiedReservations =
                      sweeps[p].nextNotifiedReservations]
    /\ UNCHANGED <<now, copies, loans, overdueRecords, reservations, calls>>

\* --------------------------------------------------------- loan repository
\* loans.due_date is a DATE column: the time of day of the due date is
\* dropped when the row is stored.
DateOf(t) == (t \div TicksPerDay) * TicksPerDay

LoanCreate(ls, userId, bookCopyId, dueDate, t) ==
    Append(ls,
        [id |-> Len(ls) + 1, userId |-> userId, bookCopyId |-> bookCopyId,
         borrowedAt |-> t, dueDate |-> DateOf(dueDate), returnedAt |-> NULL])

\* SELECT COUNT(*) FROM loans WHERE user_id = $1 AND returned_at IS NULL
CountActiveLoans(ls, userId) ==
    Cardinality({ i \in DOMAIN ls :
        ls[i].userId = userId /\ ls[i].returnedAt = NULL })

UpdateReturnedAt(ls, id, returnedAt) ==
    [ls EXCEPT ![id].returnedAt = returnedAt]

OverdueRecordCreate(recs, loanId, overdueDays, t) ==
    Append(recs, [id |-> Len(recs) + 1, loanId |-> loanId,
                  overdueDays |-> overdueDays, recordedAt |-> t])

\* ------------------------------------------------------------ loan service
\* Mutant: > instead of >=.
LoanLimitReached_Above(activeLoansCount, limit) == activeLoansCount > limit

\* activeLoansCount >= user.loanLimit
LoanLimitReached(activeLoansCount, limit) == activeLoansCount >= limit

\* Mutant: a BORROWED copy passes the status check.
CopyLoanable_Borrowed(status) == status \in {"AVAILABLE", "BORROWED"}

\* copy.status !== 'AVAILABLE' rejects the loan
CopyLoanable(status) == status = "AVAILABLE"

\* Mutant: the copy is looked up before the loan limit is checked.
CreateLoanResult_CopyFirst(userId, bookCopyId) ==
    IF userId \notin Users THEN "USER_NOT_FOUND"
    ELSE IF bookCopyId \notin Copies THEN "COPY_NOT_FOUND"
    ELSE IF LoanLimitReached(CountActiveLoans(loans, userId), loanLimit[userId])
        THEN "LOAN_LIMIT_EXCEEDED"
    ELSE IF ~CopyLoanable(copies[bookCopyId]) THEN "BOOK_NOT_AVAILABLE"
    ELSE "ok"

CreateLoanResult(userId, bookCopyId) ==
    IF userId \notin Users THEN "USER_NOT_FOUND"
    ELSE IF LoanLimitReached(CountActiveLoans(loans, userId), loanLimit[userId])
        THEN "LOAN_LIMIT_EXCEEDED"
    ELSE IF bookCopyId \notin Copies THEN "COPY_NOT_FOUND"
    ELSE IF ~CopyLoanable(copies[bookCopyId]) THEN "BOOK_NOT_AVAILABLE"
    ELSE "ok"

\* The error of a rejected loan: LOAN_LIMIT_EXCEEDED carries limit and
\* currentCount.
LoanError(op, result, userId) ==
    IF result = "LOAN_LIMIT_EXCEEDED"
    THEN [NoLast EXCEPT !.op = op, !.result = result,
            !.limit = loanLimit[userId],
            !.currentCount = CountActiveLoans(loans, userId)]
    ELSE [NoLast EXCEPT !.op = op, !.result = result]

\* Mutant: a successful loan fulfils the NOTIFIED reservation that the
\* borrower holds for the book of the copy.
CreateLoanStore_Fulfils(userId, bookCopyId, fault) ==
    LET result == CreateLoanResult(userId, bookCopyId)
        dueDate == now + DEFAULT_LOAN_DURATION_DAYS * TicksPerDay
        created == LoanCreate(loans, userId, bookCopyId, dueDate, now)
    IN /\ IF result # "ok"
          THEN /\ UNCHANGED <<loans, copies, reservations>>
               /\ last' = LoanError("createLoan", result, userId)
          ELSE IF fault = "updateCopy"
          THEN /\ loans' = created
               /\ UNCHANGED <<copies, reservations>>
               /\ last' = [NoLast EXCEPT !.op = "createLoan",
                             !.result = "VALIDATION_ERROR",
                             !.fault = fault]
          ELSE /\ loans' = created
               /\ copies' = [copies EXCEPT ![bookCopyId] = "BORROWED"]
               /\ reservations' =
                     [i \in DOMAIN reservations |->
                        IF /\ reservations[i].userId = userId
                           /\ reservations[i].bookId = CopyBook[bookCopyId]
                           /\ reservations[i].status = "NOTIFIED"
                        THEN [reservations[i] EXCEPT !.status = "FULFILLED"]
                        ELSE reservations[i]]
               /\ last' = [NoLast EXCEPT !.op = "createLoan",
                             !.result = "ok",
                             !.loan = created[Len(created)]]
       /\ UNCHANGED <<now, overdueRecords, sweeps, calls>>

\* createLoan with the outcome of its store calls: fault names the store
\* call that fails, "none" when every call succeeds.  A failing
\* bookRepository.updateCopy comes after loanRepository.create has inserted
\* the row, and nothing takes the row back.
CreateLoanStore(userId, bookCopyId, fault) ==
    LET result == CreateLoanResult(userId, bookCopyId)
        dueDate == now + DEFAULT_LOAN_DURATION_DAYS * TicksPerDay
        created == LoanCreate(loans, userId, bookCopyId, dueDate, now)
    IN /\ IF result # "ok"
          THEN /\ UNCHANGED <<loans, copies>>
               /\ last' = LoanError("createLoan", result, userId)
          ELSE IF fault = "updateCopy"
          THEN /\ loans' = created
               /\ UNCHANGED copies
               /\ last' = [NoLast EXCEPT !.op = "createLoan",
                             !.result = "VALIDATION_ERROR",
                             !.fault = fault]
          ELSE /\ loans' = created
               /\ copies' = [copies EXCEPT ![bookCopyId] = "BORROWED"]
               /\ last' = [NoLast EXCEPT !.op = "createLoan",
                             !.result = "ok",
                             !.loan = created[Len(created)]]
       /\ UNCHANGED <<now, overdueRecords, reservations, sweeps, calls>>

\* createLoan when every store call succeeds.
CreateLoan(userId, bookCopyId) == CreateLoanStore(userId, bookCopyId, "none")

\* Mutant: the receipt variant skips the loan limit.
CreateLoanWithReceiptResult_NoLimit(userId, bookCopyId) ==
    IF userId \notin Users THEN "USER_NOT_FOUND"
    ELSE IF bookCopyId \notin Copies THEN "COPY_NOT_FOUND"
    ELSE IF ~CopyLoanable(copies[bookCopyId]) THEN "BOOK_NOT_AVAILABLE"
    ELSE "ok"

CreateLoanWithReceiptResult(userId, bookCopyId) ==
    IF userId \notin Users THEN "USER_NOT_FOUND"
    ELSE IF LoanLimitReached(CountActiveLoans(loans, userId), loanLimit[userId])
        THEN "LOAN_LIMIT_EXCEEDED"
    ELSE IF bookCopyId \notin Copies THEN "COPY_NOT_FOUND"
    ELSE IF ~CopyLoanable(copies[bookCopyId]) THEN "BOOK_NOT_AVAILABLE"
    ELSE IF CopyBook[bookCopyId] \notin Books THEN "VALIDATION_ERROR"
    ELSE "ok"

\* createLoanWithReceipt with the outcome of its store calls: fault names
\* the store call that fails, "none" when every call succeeds.
\*   findBook    bookRepository.findById(copy.bookId) returns an error,
\*               before the loan row is inserted;
\*   updateCopy  bookRepository.updateCopy returns an error, after the loan
\*               row was inserted.
\* The receipt {loan, bookTitle, userName} is recorded as the loan with the
\* ids of the book and of the user.
CreateLoanWithReceiptStore(userId, bookCopyId, fault) ==
    LET result == CreateLoanWithReceiptResult(userId, bookCopyId)
        dueDate == now + DEFAULT_LOAN_DURATION_DAYS * TicksPerDay
        created == LoanCreate(loans, userId, bookCopyId, dueDate, now)
    IN /\ IF result # "ok"
          THEN /\ UNCHANGED <<loans, copies>>
               /\ last' = LoanError("createLoanWithReceipt", result, userId)
          ELSE IF fault = "findBook"
          THEN /\ UNCHANGED <<loans, copies>>
               /\ last' = [NoLast EXCEPT !.op = "createLoanWithReceipt",
                             !.result = "VALIDATION_ERROR",
                             !.fault = fault]
          ELSE IF fault = "updateCopy"
          THEN /\ loans' = created
               /\ UNCHANGED copies
               /\ last' = [NoLast EXCEPT !.op = "createLoanWithReceipt",
                             !.result = "VALIDATION_ERROR",
                             !.fault = fault]
          ELSE /\ loans' = created
               /\ copies' = [copies EXCEPT ![bookCopyId] = "BORROWED"]
               /\ last' = [NoLast EXCEPT !.op = "createLoanWithReceipt",
                             !.result = "ok",
                             !.loan = created[Len(created)],
                             !.bookId = CopyBook[bookCopyId],
                             !.userId = userId]
       /\ UNCHANGED <<now, overdueRecords, reservations, sweeps, calls>>

\* createLoanWithReceipt when every store call succeeds.
CreateLoanWithReceipt(userId, bookCopyId) ==
    CreateLoanWithReceiptStore(userId, bookCopyId, "none")

\* Mutant: Math.floor instead of Math.ceil.
OverdueDays_Floor(t, dueDate) == (t - dueDate) \div TicksPerDay

\* Math.ceil(timeDiff / (1000 * 60 * 60 * 24))
OverdueDays(t, dueDate) ==
    ((t - dueDate) + TicksPerDay - 1) \div TicksPerDay

\* now > loan.dueDate
IsOverdue(t, dueDate) == t > dueDate

\* Mutant: a returned loan passes the check.
AlreadyReturned_Never(loan) == FALSE

\* loan.returnedAt !== null
AlreadyReturned(loan) == loan.returnedAt # NULL

\* returnBook with the outcome of its store calls: fault names the store
\* call that fails, "none" when every call succeeds.
\*   updateCopy          bookRepository.updateCopy returns an error, after
\*                       updateReturnedAt has written the row;
\*   overdueCreateErr    overdueRecordRepository.create returns an error,
\*                       which the service absorbs;
\*   overdueCreateThrow  the query of the PostgreSQL overdue record
\*                       repository fails: create throws, and returnBook
\*                       rejects with that exception.
ReturnBookStore(loanId, fault) ==
    /\ IF loanId \notin DOMAIN loans
       THEN /\ UNCHANGED <<loans, copies, overdueRecords>>
            /\ last' = [NoLast EXCEPT !.op = "returnBook",
                          !.result = "LOAN_NOT_FOUND"]
       ELSE IF AlreadyReturned(loans[loanId])
       THEN /\ UNCHANGED <<loans, copies, overdueRecords>>
            /\ last' = [NoLast EXCEPT !.op = "returnBook",
                          !.result = "ALREADY_RETURNED"]
       ELSE LET loan == loans[loanId]
                isOverdue == IsOverdue(now, loan.dueDate)
                overdueDays == OverdueDays(now, loan.dueDate)
                recs == OverdueRecordCreate(overdueRecords, loanId,
                                            overdueDays, now)
            IN /\ loans' = UpdateReturnedAt(loans, loanId, now)
               /\ IF fault = "updateCopy"
                  THEN /\ UNCHANGED <<copies, overdueRecords>>
                       /\ last' = [NoLast EXCEPT !.op = "returnBook",
                                     !.result = "VALIDATION_ERROR",
                                     !.id = loanId, !.fault = fault]
                  ELSE IF isOverdue /\ fault = "overdueCreateThrow"
                  THEN /\ copies' =
                            [copies EXCEPT ![loan.bookCopyId] = "AVAILABLE"]
                       /\ UNCHANGED overdueRecords
                       /\ last' = [NoLast EXCEPT !.op = "returnBook",
                                     !.result = "exception",
                                     !.id = loanId, !.fault = fault]
                  ELSE IF isOverdue /\ fault = "overdueCreateErr"
                  THEN /\ copies' =
                            [copies EXCEPT ![loan.bookCopyId] = "AVAILABLE"]
                       /\ UNCHANGED overdueRecords
                       /\ last' = [NoLast EXCEPT !.op = "returnBook",
                                     !.result = "ok", !.id = loanId,
                                     !.loan = loans'[loanId],
                                     !.isOverdue = isOverdue,
                                     !.overdueDays = overdueDays,
                                     !.fault = fault]
                  ELSE /\ copies' =
                            [copies EXCEPT ![loan.bookCopyId] = "AVAILABLE"]
                       /\ overdueRecords' =
                            IF isOverdue THEN recs ELSE overdueRecords
                       /\ last' = [NoLast EXCEPT !.op = "returnBook",
                                     !.result = "ok", !.id = loanId,
                                     !.loan = loans'[loanId],
                                     !.isOverdue = isOverdue,
                                     !.overdueDays =
                                        IF isOverdue THEN overdueDays
                                        ELSE NULL,
                                     !.overdueRecord =
                                        IF isOverdue THEN recs[Len(recs)]
                                        ELSE NoOverdueRecord]
    /\ UNCHANGED <<now, reservations, sweeps, calls>>

\* Mutant: the return notifies the first PENDING reservation of the book.
ReturnBook_Promotes(loanId) ==
    /\ loanId \in DOMAIN loans
    /\ loans[loanId].returnedAt = NULL
    /\ loans' = UpdateReturnedAt(loans, loanId, now)
    /\ copies' = [copies EXCEPT ![loans[loanId].bookCopyId] = "AVAILABLE"]
    /\ LET first == FirstPending(reservations,
                                 CopyBook[loans[loanId].bookCopyId])
       IN IF first = {}
          THEN reservations' = reservations
          ELSE \E n \in first :
                  reservations' = NotifyReservation(reservations, n, now)
    /\ last' = [NoLast EXCEPT !.op = "returnBook", !.result = "ok",
                  !.id = loanId, !.loan = loans'[loanId]]
    /\ UNCHANGED <<now, overdueRecords, sweeps, calls>>

\* returnBook when every store call succeeds.
ReturnBook(loanId) == ReturnBookStore(loanId, "none")

\* ------------------------------------------------ calls run concurrently
\* Every service function awaits each of its store calls, so the store
\* calls of two requests interleave.  calls[p] holds the locals of the
\* request p is serving; one action is one store call with the code up to
\* the next one.  The users and books tables do not change, so the lookups
\* of the user and of the book are taken with the first step.
Callers == {"p1", "p2"}

IdleCall ==
    [op |-> "none", pc |-> "idle", userId |-> "none", target |-> "none",
     loanId |-> 0, count |-> NULL, dueDate |-> NULL, created |-> 0,
     reservationId |-> 0, result |-> "none"]

\* The call of p ends with result r.
Done(p, r) == [calls EXCEPT ![p] = [@ EXCEPT !.pc = "done", !.result = r]]

Goto(p, pc) == [calls EXCEPT ![p] = [@ EXCEPT !.pc = pc]]

\* createLoan: await userRepository.findById(userId)
LoanCallBegin(p, userId, bookCopyId) ==
    /\ calls[p].pc = "idle"
    /\ calls' = [calls EXCEPT ![p] = [IdleCall EXCEPT
                    !.op = "createLoan", !.userId = userId,
                    !.target = bookCopyId,
                    !.pc = IF userId \in Users THEN "countActiveLoans"
                           ELSE "done",
                    !.result = IF userId \in Users THEN "none"
                               ELSE "USER_NOT_FOUND"]]
    /\ last' = [NoLast EXCEPT !.op = "call"]
    /\ UNCHANGED <<now, copies, loans, overdueRecords, reservations, sweeps>>

\* createLoan: await loanRepository.countActiveLoans(userId)
LoanCallCount(p) ==
    LET activeLoansCount == CountActiveLoans(loans, calls[p].userId)
    IN /\ calls[p].op = "createLoan"
       /\ calls[p].pc = "countActiveLoans"
       /\ calls' = [calls EXCEPT ![p] = [@ EXCEPT
                       !.count = activeLoansCount,
                       !.pc = IF LoanLimitReached(activeLoansCount,
                                                  loanLimit[calls[p].userId])
                              THEN "done" ELSE "findCopyById",
                       !.result = IF LoanLimitReached(activeLoansCount,
                                                  loanLimit[calls[p].userId])
                                  THEN "LOAN_LIMIT_EXCEEDED" ELSE "none"]]
       /\ last' = [NoLast EXCEPT !.op = "call"]
       /\ UNCHANGED <<now, copies, loans, overdueRecords, reservations,
                      sweeps>>

\* createLoan: await bookRepository.findCopyById(bookCopyId), then the
\* status check
LoanCallFindCopy(p) ==
    LET c == calls[p].target
    IN /\ calls[p].op = "createLoan"
       /\ calls[p].pc = "findCopyById"
       /\ calls' = IF c \notin Copies THEN Done(p, "COPY_NOT_FOUND")
                   ELSE IF ~CopyLoanable(copies[c])
                   THEN Done(p, "BOOK_NOT_AVAILABLE")
                   ELSE Goto(p, "create")
       /\ last' = [NoLast EXCEPT !.op = "call"]
       /\ UNCHANGED <<now, copies, loans, overdueRecords, reservations,
                      sweeps>>

\* createLoan: await loanRepository.create(input, dueDate)
LoanCallCreate(p) ==
    LET dueDate == now + DEFAULT_LOAN_DURATION_DAYS * TicksPerDay
    IN /\ calls[p].op = "createLoan"
       /\ calls[p].pc = "create"
       /\ loans' = LoanCreate(loans, calls[p].userId, calls[p].target,
                              dueDate, now)
       /\ calls' = [calls EXCEPT ![p] = [@ EXCEPT
                       !.created = Len(loans) + 1, !.pc = "updateCopy"]]
       /\ last' = [NoLast EXCEPT !.op = "call"]
       /\ UNCHANGED <<now, copies, overdueRecords, reservations, sweeps>>

\* createLoan: await bookRepository.updateCopy(bookCopyId, 'BORROWED')
LoanCallUpdateCopy(p) ==
    /\ calls[p].op = "createLoan"
    /\ calls[p].pc = "updateCopy"
    /\ copies' = [copies EXCEPT ![calls[p].target] = "BORROWED"]
    /\ calls' = Done(p, "ok")
    /\ last' = [NoLast EXCEPT !.op = "call"]
    /\ UNCHANGED <<now, loans, overdueRecords, reservations, sweeps>>

\* returnBook: await loanRepository.findById(loanId), then the check of
\* returnedAt
ReturnCallBegin(p, loanId) ==
    /\ calls[p].pc = "idle"
    /\ calls' = [calls EXCEPT ![p] =
          IF loanId \notin DOMAIN loans
          THEN [IdleCall EXCEPT !.op = "returnBook", !.loanId = loanId,
                  !.pc = "done", !.result = "LOAN_NOT_FOUND"]
          ELSE IF AlreadyReturned(loans[loanId])
          THEN [IdleCall EXCEPT !.op = "returnBook", !.loanId = loanId,
                  !.pc = "done", !.result = "ALREADY_RETURNED"]
          ELSE [IdleCall EXCEPT !.op = "returnBook", !.loanId = loanId,
                  !.target = loans[loanId].bookCopyId,
                  !.dueDate = loans[loanId].dueDate,
                  !.pc = "updateReturnedAt"]]
    /\ last' = [NoLast EXCEPT !.op = "call"]
    /\ UNCHANGED <<now, copies, loans, overdueRecords, reservations, sweeps>>

\* returnBook: await loanRepository.updateReturnedAt(loanId, now)
ReturnCallUpdate(p) ==
    /\ calls[p].op = "returnBook"
    /\ calls[p].pc = "updateReturnedAt"
    /\ loans' = UpdateReturnedAt(loans, calls[p].loanId, now)
    /\ calls' = [calls EXCEPT ![p] = [@ EXCEPT
                    !.created = 1, !.pc = "updateCopy"]]
    /\ last' = [NoLast EXCEPT !.op = "call"]
    /\ UNCHANGED <<now, copies, overdueRecords, reservations, sweeps>>

\* returnBook: await bookRepository.updateCopy(loan.bookCopyId,
\* 'AVAILABLE'), then the overdue check
ReturnCallUpdateCopy(p) ==
    /\ calls[p].op = "returnBook"
    /\ calls[p].pc = "updateCopy"
    /\ copies' = [copies EXCEPT ![calls[p].target] = "AVAILABLE"]
    /\ calls' = IF IsOverdue(now, calls[p].dueDate)
                THEN Goto(p, "overdueCreate")
                ELSE Done(p, "ok")
    /\ last' = [NoLast EXCEPT !.op = "call"]
    /\ UNCHANGED <<now, loans, overdueRecords, reservations, sweeps>>

\* returnBook: await overdueRecordRepository.create(overdueInput)
ReturnCallOverdue(p) ==
    /\ calls[p].op = "returnBook"
    /\ calls[p].pc = "overdueCreate"
    /\ overdueRecords' =
          OverdueRecordCreate(overdueRecords, calls[p].loanId,
                              OverdueDays(now, calls[p].dueDate), now)
    /\ calls' = Done(p, "ok")
    /\ last' = [NoLast EXCEPT !.op = "call"]
    /\ UNCHANGED <<now, copies, loans, reservations, sweeps>>

\* createReservation: await userRepository.findById(userId) and
\* bookRepository.findById(bookId)
ReserveCallBegin(p, userId, bookId) ==
    /\ calls[p].pc = "idle"
    /\ calls' = [calls EXCEPT ![p] =
          IF userId \notin Users
          THEN [IdleCall EXCEPT !.op = "createReservation",
                  !.pc = "done", !.result = "USER_NOT_FOUND"]
          ELSE IF bookId \notin Books
          THEN [IdleCall EXCEPT !.op = "createReservation",
                  !.pc = "done", !.result = "BOOK_NOT_FOUND"]
          ELSE [IdleCall EXCEPT !.op = "createReservation",
                  !.userId = userId, !.target = bookId,
                  !.pc = "hasActiveReservation"]]
    /\ last' = [NoLast EXCEPT !.op = "call"]
    /\ UNCHANGED <<now, copies, loans, overdueRecords, reservations, sweeps>>

\* createReservation: await hasActiveReservation(userId, bookId)
ReserveCallHasActive(p) ==
    /\ calls[p].op = "createReservation"
    /\ calls[p].pc = "hasActiveReservation"
    /\ calls' = IF HasActiveReservation(reservations, calls[p].userId,
                                        calls[p].target)
                THEN Done(p, "ALREADY_RESERVED")
                ELSE Goto(p, "findCopiesByBookId")
    /\ last' = [NoLast EXCEPT !.op = "call"]
    /\ UNCHANGED <<now, copies, loans, overdueRecords, reservations, sweeps>>

\* createReservation: await bookRepository.findCopiesByBookId(bookId)
ReserveCallFindCopies(p) ==
    /\ calls[p].op = "createReservation"
    /\ calls[p].pc = "findCopiesByBookId"
    /\ calls' = IF HasAvailableCopy(copies, calls[p].target)
                THEN Done(p, "BOOK_AVAILABLE")
                ELSE Goto(p, "countActiveByBookId")
    /\ last' = [NoLast EXCEPT !.op = "call"]
    /\ UNCHANGED <<now, copies, loans, overdueRecords, reservations, sweeps>>

\* createReservation: await countActiveByBookId(bookId)
ReserveCallCount(p) ==
    /\ calls[p].op = "createReservation"
    /\ calls[p].pc = "countActiveByBookId"
    /\ calls' = [calls EXCEPT ![p] = [@ EXCEPT
                    !.count = CountActiveByBookId(reservations,
                                                  calls[p].target),
                    !.pc = "create"]]
    /\ last' = [NoLast EXCEPT !.op = "call"]
    /\ UNCHANGED <<now, copies, loans, overdueRecords, reservations, sweeps>>

\* createReservation: await reservationRepository.create({userId, bookId,
\* queuePosition})
ReserveCallCreate(p) ==
    /\ calls[p].op = "createReservation"
    /\ calls[p].pc = "create"
    /\ reservations' = ReservationCreate(reservations, calls[p].userId,
                                         calls[p].target, calls[p].count + 1)
    /\ calls' = [calls EXCEPT ![p] = [@ EXCEPT
                    !.created = Len(reservations) + 1,
                    !.pc = "done", !.result = "ok"]]
    /\ last' = [NoLast EXCEPT !.op = "call"]
    /\ UNCHANGED <<now, copies, loans, overdueRecords, sweeps>>

\* processReturnedBook: await findActiveByBookId(bookId), then the search
\* for the first PENDING reservation
ProcessCallBegin(p, bookId) ==
    LET first == FirstPending(reservations, bookId)
    IN /\ calls[p].pc = "idle"
       /\ IF first = {}
          THEN calls' = [calls EXCEPT ![p] = [IdleCall EXCEPT
                           !.op = "processReturnedBook", !.target = bookId,
                           !.pc = "done", !.result = "ok"]]
          ELSE \E id \in first :
                  calls' = [calls EXCEPT ![p] = [IdleCall EXCEPT
                              !.op = "processReturnedBook",
                              !.target = bookId, !.reservationId = id,
                              !.pc = "notify"]]
       /\ last' = [NoLast EXCEPT !.op = "call"]
       /\ UNCHANGED <<now, copies, loans, overdueRecords, reservations,
                      sweeps>>

\* processReturnedBook: await notifyReservation(firstPendingReservation)
ProcessCallNotify(p) ==
    /\ calls[p].op = "processReturnedBook"
    /\ calls[p].pc = "notify"
    /\ reservations' =
          NotifyReservation(reservations, calls[p].reservationId, now)
    /\ calls' = [calls EXCEPT ![p] = [@ EXCEPT
                    !.created = calls[p].reservationId,
                    !.pc = "done", !.result = "ok"]]
    /\ last' = [NoLast EXCEPT !.op = "call"]
    /\ UNCHANGED <<now, copies, loans, overdueRecords, sweeps>>

\* cancelReservation: await reservationRepository.findById(reservationId)
CancelCallBegin(p, id) ==
    /\ calls[p].pc = "idle"
    /\ calls' = [calls EXCEPT ![p] =
          IF id \notin DOMAIN reservations
          THEN [IdleCall EXCEPT !.op = "cancelReservation",
                  !.reservationId = id,
                  !.pc = "done", !.result = "RESERVATION_NOT_FOUND"]
          ELSE [IdleCall EXCEPT !.op = "cancelReservation",
                  !.reservationId = id, !.pc = "updateStatus"]]
    /\ last' = [NoLast EXCEPT !.op = "call"]
    /\ UNCHANGED <<now, copies, loans, overdueRecords, reservations, sweeps>>

\* cancelReservation: await updateStatus(reservationId, 'CANCELLED')
CancelCallUpdate(p) ==
    /\ calls[p].op = "cancelReservation"
    /\ calls[p].pc = "updateStatus"
    /\ reservations' = UpdateStatus(reservations, calls[p].reservationId,
                                    "CANCELLED", NULL, NULL)
    /\ calls' = [calls EXCEPT ![p] = [@ EXCEPT
                    !.created = calls[p].reservationId,
                    !.pc = "done", !.result = "ok"]]
    /\ last' = [NoLast EXCEPT !.op = "call"]
    /\ UNCHANGED <<now, copies, loans, overdueRecords, sweeps>>

\* The return use case of the callers of the engine: after a successful
\* returnBook the caller invokes processReturnedBook for the book of the
\* returned copy.  This step is the return of returnBook and the first
\* store call of processReturnedBook.
ReturnThenProcess(p) ==
    LET bookId == CopyBook[calls[p].target]
        first == FirstPending(reservations, bookId)
    IN /\ calls[p].op = "returnBook"
       /\ calls[p].pc = "done"
       /\ calls[p].result = "ok"
       /\ IF first = {}
          THEN calls' = [calls EXCEPT ![p] = [IdleCall EXCEPT
                           !.op = "processReturnedBook", !.target = bookId,
                           !.pc = "done", !.result = "ok"]]
          ELSE \E id \in first :
                  calls' = [calls EXCEPT ![p] = [IdleCall EXCEPT
                              !.op = "processReturnedBook",
                              !.target = bookId, !.reservationId = id,
                              !.pc = "notify"]]
       /\ last' = [NoLast EXCEPT !.op = "returnBook", !.result = "ok"]
       /\ UNCHANGED <<now, copies, loans, overdueRecords, reservations,
                      sweeps>>

\* The function returns its result to the caller.
CallReturn(p) ==
    /\ calls[p].pc = "done"
    /\ calls' = [calls EXCEPT ![p] = IdleCall]
    /\ last' = [NoLast EXCEPT !.op = calls[p].op, !.result = calls[p].result]
    /\ UNCHANGED <<now, copies, loans, overdueRecords, reservations, sweeps>>

\* ---------------------------------------------------------------- the clock
Tick(d) ==
    /\ now' = now + d
    /\ last' = [NoLast EXCEPT !.op = "tick"]
    /\ UNCHANGED <<copies, loans, overdueRecords, reservations, sweeps, calls>>

Init ==
    /\ now = 0
    /\ copies \in InitialCopyStatuses
    /\ loans = <<>>
    /\ overdueRecords = <<>>
    /\ reservations = <<>>
    /\ sweeps = [p \in Sweepers |-> IdleSweep]
    /\ calls = [p \in Callers |-> IdleCall]
    /\ last = NoLast

\* The calls of the reservation service, by callers from U, with a table of
\* at most maxRows reservations.
ReservationCalls(U, B, maxRows) ==
    \/ \E u \in U, b \in B \cup {"bx"} :
          /\ CreateReservation(u, b) /\ Len(reservations') <= maxRows
    \/ \E b \in B : ProcessReturnedBook(b)
    \/ ExpireOverdueReservations
    \/ \E id \in 1..maxRows : CancelReservation(id)

LoanCalls(U, maxRows) ==
    \/ \E u \in U, c \in CopyIds :
          CreateLoan(u, c) /\ Len(loans') <= maxRows
    \/ \E u \in U, c \in CopyIds :
          CreateLoanWithReceipt(u, c) /\ Len(loans') <= maxRows
    \/ \E id \in 1..maxRows : ReturnBook(id)

\* The whole engine, with few callers and small tables.
Next ==
    \/ LoanCalls(FewUserIds, MaxSpecLoans)
    \/ ReservationCalls(FewUserIds, Books, MaxSpecReservations)
    \/ \E d \in ClockSteps : Tick(d) /\ now' <= MaxQueueDays * TicksPerDay

Spec == Init /\ [][Next]_vars

\* Lending and reserving one title: a patron who was notified can borrow
\* the returned copy.
NextLending ==
    \/ LoanCalls({"u1", "u2"}, MaxLoans)
    \/ ReservationCalls({"u1", "u2"}, {"b2"}, MaxLendingReservations)
    \/ \E d \in ClockSteps : Tick(d) /\ now' <= MaxQueueDays * TicksPerDay

SpecLending == Init /\ [][NextLending]_vars

\* The loan service alone.
NextLoan ==
    \/ LoanCalls(FewUserIds, MaxLoans)
    \/ \E d \in ClockSteps : Tick(d) /\ now' <= MaxDays * TicksPerDay

SpecLoan == Init /\ [][NextLoan]_vars

\* The reservation service alone, over both books.
NextReservation ==
    \/ ReservationCalls(ManyUserIds, Books, MaxReservations)
    \/ \E d \in ClockSteps : Tick(d) /\ now' <= MaxQueueDays * TicksPerDay

SpecReservation == Init /\ [][NextReservation]_vars

\* The reservation service with store calls that may fail.
NextReservationStore ==
    \/ \E u \in FewUserIds, b \in Books \cup {"bx"} :
          /\ CreateReservation(u, b)
          /\ Len(reservations') <= MaxReservations
    \/ \E b \in Books, f \in ProcessReturnedBookFaults :
          ProcessReturnedBookStore(b, f)
    \/ \E f \in ExpireFaults : ExpireOverdueReservationsStore(f)
    \/ \E id \in 1..MaxReservations : CancelReservation(id)
    \/ \E d \in ClockSteps : Tick(d) /\ now' <= MaxQueueDays * TicksPerDay

SpecReservationStore == Init /\ [][NextReservationStore]_vars

\* The reservation service alone, with every user queueing for one book.
NextQueue ==
    \/ ReservationCalls(UserIds, {"b1"}, MaxQueue)
    \/ \E d \in ClockSteps : Tick(d) /\ now' <= MaxQueueDays * TicksPerDay

SpecQueue == Init /\ [][NextQueue]_vars

\* The calls of the loan service with the outcomes of their store calls.
CreateLoanFaults == {"none", "updateCopy"}
CreateLoanWithReceiptFaults == {"none", "findBook", "updateCopy"}
ReturnBookFaults ==
    {"none", "updateCopy", "overdueCreateErr", "overdueCreateThrow"}

LoanStoreCalls(U, C, maxRows) ==
    \/ \E u \in U, c \in C, f \in CreateLoanFaults :
          CreateLoanStore(u, c, f) /\ Len(loans') <= maxRows
    \/ \E u \in U, c \in C, f \in CreateLoanWithReceiptFaults :
          CreateLoanWithReceiptStore(u, c, f) /\ Len(loans') <= maxRows
    \/ \E id \in 1..maxRows, f \in ReturnBookFaults : ReturnBookStore(id, f)

\* The loan service with store calls that may fail.
NextStore ==
    \/ LoanStoreCalls(FewUserIds, CopyIds, MaxLoans)
    \/ \E d \in ClockSteps : Tick(d) /\ now' <= MaxDays * TicksPerDay

SpecStore == Init /\ [][NextStore]_vars

\* The two admission functions side by side, with store calls that may
\* fail, for one user and one copy.
NextReceipt ==
    \/ LoanStoreCalls({"u1", "ux"}, {"c1", "cx"}, MaxLoans)
    \/ \E d \in ClockSteps : Tick(d) /\ now' <= MaxDays * TicksPerDay

SpecReceipt == Init /\ [][NextReceipt]_vars

\* One loan at a time, returned at any time of any day.
OverdueClockSteps == {1, DEFAULT_LOAN_DURATION_DAYS * TicksPerDay - 1}

NextOverdue ==
    \/ LoanStoreCalls({"u1", "ux"}, {"c1", "cx"}, MaxSpecLoans)
    \/ \E d \in OverdueClockSteps :
          Tick(d) /\ now' <= MaxOverdueDays * TicksPerDay

SpecOverdue == Init /\ [][NextOverdue]_vars

\* Two expiry sweeps running concurrently over the queue of one book; the
\* other calls run while no sweep is in progress.
SweepsIdle == \A p \in Sweepers : sweeps[p].pc = "idle"

NextSweep ==
    \/ SweepsIdle /\ ReservationCalls(ManyUserIds, {"b1"}, MaxReservations)
    \/ /\ SweepsIdle
       /\ \E d \in ClockSteps : Tick(d) /\ now' <= MaxQueueDays * TicksPerDay
    \/ \E p \in Sweepers : SweepStart(p)
    \/ \E p \in Sweepers : SweepExpire(p)
    \/ \E p \in Sweepers : SweepFind(p)
    \/ \E p \in Sweepers : SweepNotify(p)
    \/ \E p \in Sweepers : SweepReturn(p)

SpecSweep == Init /\ [][NextSweep]_vars

\* Two requests to the loan service served concurrently; the clock moves
\* while no request is being served.
CallsIdle == \A p \in Callers : calls[p].pc = "idle"

NextLoanRace ==
    \/ \E p \in Callers, u \in {"u1", "u2"}, c \in {"c1", "c3"} :
          LoanCallBegin(p, u, c)
    \/ \E p \in Callers : LoanCallCount(p)
    \/ \E p \in Callers : LoanCallFindCopy(p)
    \/ \E p \in Callers : LoanCallCreate(p) /\ Len(loans') <= MaxLoans
    \/ \E p \in Callers : LoanCallUpdateCopy(p)
    \/ \E p \in Callers, id \in 1..MaxLoans : ReturnCallBegin(p, id)
    \/ \E p \in Callers : ReturnCallUpdate(p)
    \/ \E p \in Callers : ReturnCallUpdateCopy(p)
    \/ \E p \in Callers : ReturnCallOverdue(p)
    \/ \E p \in Callers : CallReturn(p)
    \/ /\ CallsIdle
       /\ \E d \in ClockSteps : Tick(d) /\ now' <= MaxDays * TicksPerDay

SpecLoanRace == Init /\ [][NextLoanRace]_vars

\* Two requests to createReservation served concurrently.
NextReserveRace ==
    \/ \E p \in Callers, u \in FewUserIds, b \in {"b1", "bx"} :
          ReserveCallBegin(p, u, b)
    \/ \E p \in Callers : ReserveCallHasActive(p)
    \/ \E p \in Callers : ReserveCallFindCopies(p)
    \/ \E p \in Callers : ReserveCallCount(p)
    \/ \E p \in Callers :
          ReserveCallCreate(p) /\ Len(reservations') <= MaxReservations
    \/ \E p \in Callers : CallReturn(p)

SpecReserveRace == Init /\ [][NextReserveRace]_vars

\* Every operation served step by step, one title, a request and a sweep at
\* a time, with the event loop resuming each of them once its store call has
\* returned.  A request that
\* inserts a row starts only while the table has room for it.
PendingInserts(op) ==
    Cardinality({ p \in Callers :
        calls[p].op = op /\ calls[p].pc \notin {"idle", "done", "updateCopy"} })

CallStep(p) ==
    \/ LoanCallCount(p)
    \/ LoanCallFindCopy(p)
    \/ LoanCallCreate(p)
    \/ LoanCallUpdateCopy(p)
    \/ ReturnCallUpdate(p)
    \/ ReturnCallUpdateCopy(p)
    \/ ReturnCallOverdue(p)
    \/ ReserveCallHasActive(p)
    \/ ReserveCallFindCopies(p)
    \/ ReserveCallCount(p)
    \/ ReserveCallCreate(p)
    \/ ProcessCallNotify(p)
    \/ CancelCallUpdate(p)
    \/ CallReturn(p)

SweepStep(p) ==
    \/ SweepExpire(p)
    \/ SweepFind(p)
    \/ SweepNotify(p)
    \/ SweepReturn(p)

NextSteps ==
    \/ /\ Len(loans) + PendingInserts("createLoan") < MaxSpecLoans
       /\ LoanCallBegin("p1", "u2", "c3")
    \/ \E id \in 1..MaxSpecLoans : ReturnCallBegin("p1", id)
    \/ \E u \in {"u1", "u2"} :
          /\ Len(reservations) + PendingInserts("createReservation")
                < MaxSpecReservations
          /\ ReserveCallBegin("p1", u, "b2")
    \/ ProcessCallBegin("p1", "b2")
    \/ \E id \in 1..MaxSpecReservations : CancelCallBegin("p1", id)
    \/ SweepStart("s1")
    \/ CallStep("p1")
    \/ SweepStep("s1")
    \/ /\ CallsIdle /\ SweepsIdle
       /\ \E d \in ClockSteps : Tick(d) /\ now' <= MaxDays * TicksPerDay

SpecSteps ==
    /\ Init /\ [][NextSteps]_vars
    /\ WF_vars(CallStep("p1"))
    /\ WF_vars(SweepStep("s1"))

\* The return use case served concurrently with a createReservation for
\* the same title; loans are made while no request is being served.
NextReturnRace ==
    \/ /\ CallsIdle
       /\ \E u \in {"u1", "u2"} :
             CreateLoan(u, "c3") /\ Len(loans') <= MaxLoans
    \/ \E p \in Callers, id \in 1..MaxLoans : ReturnCallBegin(p, id)
    \/ \E p \in Callers : ReturnCallUpdate(p)
    \/ \E p \in Callers : ReturnCallUpdateCopy(p)
    \/ \E p \in Callers : ReturnThenProcess(p)
    \/ \E p \in Callers : ProcessCallNotify(p)
    \/ \E p \in Callers, u \in {"u1", "u2"} : ReserveCallBegin(p, u, "b2")
    \/ \E p \in Callers : ReserveCallHasActive(p)
    \/ \E p \in Callers : ReserveCallFindCopies(p)
    \/ \E p \in Callers : ReserveCallCount(p)
    \/ \E p \in Callers :
          ReserveCallCreate(p) /\ Len(reservations') <= MaxSpecReservations
    \/ \E p \in Callers :
          /\ ~(calls[p].op = "returnBook" /\ calls[p].result = "ok")
          /\ CallReturn(p)

SpecReturnRace == Init /\ [][NextReturnRace]_vars

\* A cancellation served concurrently with a promotion, by
\* processReturnedBook or by a sweep; reservations are made and the clock
\* moves while nothing is being served.
NextCancelRace ==
    \/ /\ CallsIdle /\ SweepsIdle
       /\ \E u \in {"u1", "u2"} :
             /\ CreateReservation(u, "b1")
             /\ Len(reservations') <= MaxSpecReservations
    \/ /\ CallsIdle /\ SweepsIdle
       /\ \E d \in ClockSteps : Tick(d) /\ now' <= MaxQueueDays * TicksPerDay
    \/ ProcessCallBegin("p1", "b1")
    \/ ProcessCallNotify("p1")
    \/ \E id \in 1..MaxSpecReservations : CancelCallBegin("p2", id)
    \/ CancelCallUpdate("p2")
    \/ \E p \in Callers : CallReturn(p)
    \/ SweepStart("s1")
    \/ SweepStep("s1")

SpecCancelRace == Init /\ [][NextCancelRace]_vars

\* The queue of one title with patrons arriving for ever.  createReservation,
\* processReturnedBook and the sweep read only PENDING and NOTIFIED rows, so
\* the rows that are EXPIRED or CANCELLED are dropped from the table here,
\* which keeps the table finite while reservations keep being made.  Only
\* notified patrons cancel.  processReturnedBook keeps being invoked.
ForgetTerminal ==
    LET keep == SelectSeq(reservations, LAMBDA r : IsActive(r))
    IN /\ keep # reservations
       /\ reservations' = [i \in 1..Len(keep) |-> [keep[i] EXCEPT !.id = i]]
       /\ last' = [NoLast EXCEPT !.op = "forget"]
       /\ UNCHANGED <<now, copies, loans, overdueRecords, sweeps, calls>>

NextForever ==
    \/ \E u \in {"u1", "u2", "u3"} :
          /\ CreateReservation(u, "b1")
          /\ Len(reservations') <= MaxReservations
    \/ ProcessReturnedBook("b1")
    \/ ExpireOverdueReservations
    \/ \E id \in 1..MaxReservations :
          /\ id \in DOMAIN reservations
          /\ reservations[id].status = "NOTIFIED"
          /\ CancelReservation(id)
    \/ ForgetTerminal
    \/ \E d \in ClockSteps : Tick(d) /\ now' <= MaxQueueDays * TicksPerDay

SpecForever ==
    /\ Init /\ [][NextForever]_vars
    /\ WF_vars(ProcessReturnedBook("b1"))

\* ------------------------------------------------------------------ claims
ActiveLoansOfCopy(c) ==
    { i \in DOMAIN loans :
        loans[i].bookCopyId = c /\ loans[i].returnedAt = NULL }

ActiveOfPair(u, b) ==
    { i \in DOMAIN reservations :
        /\ reservations[i].userId = u
        /\ reservations[i].bookId = b
        /\ reservations[i].status \in {"PENDING", "NOTIFIED"} }

ActiveOfBook(b) ==
    { i \in DOMAIN reservations :
        /\ reservations[i].bookId = b
        /\ reservations[i].status \in {"PENDING", "NOTIFIED"} }

PendingOfBook(b) ==
    { i \in DOMAIN reservations :
        reservations[i].bookId = b /\ reservations[i].status = "PENDING" }

\* The reservations the sweep has to expire: NOTIFIED and past expiresAt.
Overdue ==
    { i \in DOMAIN reservations :
        /\ reservations[i].status = "NOTIFIED"
        /\ reservations[i].expiresAt # NULL
        /\ reservations[i].expiresAt < now }

\* The step is a call of processReturnedBook(b).
IsProcessReturnedBook(b) ==
    last'.op = "processReturnedBook" /\ last'.bookId = b

\* The step is a call of expireOverdueReservations().
IsExpire == last'.op = "expireOverdueReservations"

\* C1: after any sequence of createLoan, createLoanWithReceipt and
\* returnBook calls, no user has more active loans (returnedAt = null) than
\* the user's loanLimit.
C1_LoanLimitRespected ==
    \A u \in Users :
        Cardinality({ i \in DOMAIN loans :
            loans[i].userId = u /\ loans[i].returnedAt = NULL })
          <= loanLimit[u]

\* A loan was just created that brings its user to the limit, after an
\* earlier loan was returned.
C1_Witness ==
    /\ last.op \in {"createLoan", "createLoanWithReceipt"}
    /\ last.result = "ok"
    /\ Cardinality({ i \in DOMAIN loans :
           loans[i].userId = last.loan.userId /\ loans[i].returnedAt = NULL })
         = loanLimit[last.loan.userId]
    /\ \E i \in DOMAIN loans : loans[i].returnedAt # NULL

\* C2: in every reachable state at most one active loan references a copy.
C2_OneActiveLoanPerCopy ==
    \A c \in Copies : Cardinality(ActiveLoansOfCopy(c)) <= 1

\* A copy that was lent, returned and lent again.
C2_Witness ==
    \E i, j \in DOMAIN loans :
        /\ i # j
        /\ loans[i].bookCopyId = loans[j].bookCopyId
        /\ loans[i].returnedAt # NULL
        /\ loans[j].returnedAt = NULL

\* C3: in every reachable state a (userId, bookId) pair has at most one
\* reservation in status PENDING or NOTIFIED.
C3_OneActiveReservationPerPair ==
    \A u \in Users, b \in Books : Cardinality(ActiveOfPair(u, b)) <= 1

\* A pair that reserved again after its NOTIFIED reservation was closed, and
\* a pair whose reservation is NOTIFIED.
C3_Witness ==
    /\ \E i, j \in DOMAIN reservations :
        /\ i < j
        /\ reservations[i].userId = reservations[j].userId
        /\ reservations[i].bookId = reservations[j].bookId
        /\ reservations[i].status \in {"EXPIRED", "CANCELLED"}
        /\ reservations[i].notifiedAt # NULL
        /\ reservations[j].status \in {"PENDING", "NOTIFIED"}
    /\ \E k \in DOMAIN reservations : reservations[k].status = "NOTIFIED"

\* C4: immediately after a successful createReservation for a book, the
\* queuePosition values of the active reservations of the book are exactly
\* 1..N without repeats, N the number of active reservations, and the new
\* reservation has position N (the count before it plus 1).
C4_PositionsContiguous ==
    (last.op = "createReservation" /\ last.result = "ok") =>
        LET act == ActiveOfBook(last.reservation.bookId)
        IN /\ { reservations[i].queuePosition : i \in act }
                = 1..Cardinality(act)
           /\ \A i, j \in act :
                reservations[i].queuePosition = reservations[j].queuePosition
                    => i = j
           /\ last.reservation.queuePosition = Cardinality(act)

HeadNotified(b) ==
    \E i \in ActiveOfBook(b) :
        /\ reservations[i].status = "NOTIFIED"
        /\ \A j \in ActiveOfBook(b) :
              reservations[i].queuePosition <= reservations[j].queuePosition

C8_NotifiedExpiry ==
    \A i \in DOMAIN reservations :
        reservations[i].status = "NOTIFIED" =>
            /\ reservations[i].notifiedAt # NULL
            /\ reservations[i].expiresAt # NULL
            /\ reservations[i].expiresAt
                 = reservations[i].notifiedAt + 7 * TicksPerDay

\* One reservation was notified by the sweep and another one, still
\* NOTIFIED, by processReturnedBook.
C8_Witness ==
    /\ last.op = "expireOverdueReservations"
    /\ \E i \in DOMAIN reservations :
        /\ reservations[i].status = "NOTIFIED"
        /\ reservations[i] \in Range(last.nextNotifiedReservations)
    /\ \E i \in DOMAIN reservations :
        /\ reservations[i].status = "NOTIFIED"
        /\ reservations[i] \notin Range(last.nextNotifiedReservations)

C10_OncePerBook ==
    [][ IsExpire =>
          \A b \in Books :
            /\ Cardinality({ k \in DOMAIN last'.nextNotifiedReservations :
                  last'.nextNotifiedReservations[k].bookId = b }) <= 1
            /\ Cardinality({ j \in PendingOfBook(b) :
                  reservations'[j].status = "NOTIFIED" }) <= 1
      ]_vars

\* A sweep just expired two reservations of one book, promoted one PENDING
\* reservation of it and left another one PENDING.
C10_Witness ==
    /\ last.op = "expireOverdueReservations"
    /\ last.expiredCount >= 2
    /\ Len(last.nextNotifiedReservations) = 1
    /\ PendingOfBook(last.nextNotifiedReservations[1].bookId) # {}

PromotedBy(p, q, b) ==
    { r.id : r \in { x \in Range(sweeps[p].nextNotifiedReservations)
                            \cup Range(sweeps[q].nextNotifiedReservations) :
                        x.bookId = b } }

\* C12: when two calls of expireOverdueReservations() run concurrently, no
\* reservation is set to EXPIRED by both, none is counted in the
\* expiredCount of both, and for each book the two calls together promote
\* at most one PENDING reservation.
C12_NoDoubleSweep ==
    \A p, q \in Sweepers :
        p # q =>
            /\ sweeps[p].expired \cap sweeps[q].expired = {}
            /\ (sweeps[p].pc = "done" /\ sweeps[q].pc = "done") =>
                  sweeps[p].expiredReservations
                      \cap sweeps[q].expiredReservations = {}
            /\ \A b \in Books : Cardinality(PromotedBy(p, q, b)) <= 1

\* The status changes a reservation may make.
AllowedTransitions ==
    { <<"PENDING", "NOTIFIED">>, <<"NOTIFIED", "EXPIRED">>,
      <<"PENDING", "CANCELLED">>, <<"NOTIFIED", "CANCELLED">>,
      <<"NOTIFIED", "FULFILLED">> }

\* C13: every status change of a reservation is PENDING -> NOTIFIED,
\* NOTIFIED -> EXPIRED, PENDING -> CANCELLED, NOTIFIED -> CANCELLED or
\* NOTIFIED -> FULFILLED; a reservation that is FULFILLED, EXPIRED or
\* CANCELLED never changes status again.
C13_StatusTransitions ==
    [][ \A i \in DOMAIN reservations :
            reservations'[i].status # reservations[i].status =>
                <<reservations[i].status, reservations'[i].status>>
                    \in AllowedTransitions ]_vars

C16_OverdueRecordFailureAbsorbed ==
    (/\ last.op = "returnBook"
     /\ last.fault \in {"overdueCreateErr", "overdueCreateThrow"})
        => /\ last.result = "ok"
           /\ last.isOverdue
           /\ last.overdueDays # NULL
           /\ last.overdueDays >= 1
           /\ last.overdueRecord.id = 0
           /\ loans[last.id].returnedAt # NULL
           /\ copies[loans[last.id].bookCopyId] = "AVAILABLE"

\* The overdue records of a loan.
RecordsOfLoan(loanId) ==
    { i \in DOMAIN overdueRecords : overdueRecords[i].loanId = loanId }

\* C17: for a successful returnBook at time now on a loan with due date d,
\* isOverdue is true exactly when now > d; if now <= d the result carries no
\* overdueDays and no overdue record is created; if now > d then overdueDays
\* is ceil((now - d) / 1 day), at least 1 and at least k when the return is
\* k whole days late, and, when the record store succeeds, an overdue
\* record with that loanId and overdueDays is persisted and returned.
C17_OverdueComputation ==
    (last.op = "returnBook" /\ last.result = "ok") =>
        LET d == last.loan.dueDate
            t == last.loan.returnedAt
        IN /\ t = now
           /\ last.isOverdue <=> t > d
           /\ t <= d =>
                /\ last.overdueDays = NULL
                /\ last.overdueRecord.id = 0
                /\ RecordsOfLoan(last.loan.id) = {}
           /\ t > d =>
                /\ last.overdueDays >= 1
                /\ (last.overdueDays - 1) * TicksPerDay < t - d
                /\ t - d <= last.overdueDays * TicksPerDay
                /\ \A k \in 0..MaxOverdueDays :
                      t - d >= k * TicksPerDay => last.overdueDays >= k
                /\ last.fault = "none" =>
                      /\ last.overdueRecord.id \in DOMAIN overdueRecords
                      /\ overdueRecords[last.overdueRecord.id]
                            = last.overdueRecord
                      /\ last.overdueRecord.loanId = last.loan.id
                      /\ last.overdueRecord.overdueDays = last.overdueDays

\* A loan has been returned one day and a part of a day late: two overdue
\* days are recorded.
C17_Witness ==
    /\ last.op = "returnBook"
    /\ last.result = "ok"
    /\ last.fault = "none"
    /\ last.isOverdue
    /\ (last.loan.returnedAt - last.loan.dueDate) % TicksPerDay # 0
    /\ last.overdueDays = 2
    /\ last.overdueRecord.overdueDays = 2
    /\ RecordsOfLoan(last.loan.id) # {}

\* C18: in every reachable state, for every loan with returnedAt set an
\* overdue record of the loan exists if and only if returnedAt > dueDate,
\* its overdueDays is strictly positive, and no loan has more than one
\* overdue record.
C18_OverdueRecordIffLate ==
    \A i \in DOMAIN loans :
        /\ loans[i].returnedAt # NULL =>
              (RecordsOfLoan(i) # {} <=> loans[i].returnedAt > loans[i].dueDate)
        /\ \A r \in RecordsOfLoan(i) : overdueRecords[r].overdueDays > 0
        /\ Cardinality(RecordsOfLoan(i)) <= 1

\* C19: returnBook on a loan whose returnedAt is set fails with
\* ALREADY_RETURNED and changes nothing; over any sequence of operations
\* run one at a time, the returnedAt of a loan is written at most once, from
\* null to the time of the return, never goes back to null, and no loan is
\* deleted.
C19_ReturnedOnce ==
    [][ /\ \A id \in DOMAIN loans, f \in ReturnBookFaults :
              (loans[id].returnedAt # NULL /\ ReturnBookStore(id, f)) =>
                  /\ last'.result = "ALREADY_RETURNED"
                  /\ UNCHANGED <<loans, copies, overdueRecords,
                                 reservations>>
        /\ (last'.op = "returnBook" /\ last'.result = "ALREADY_RETURNED") =>
              UNCHANGED <<loans, copies, overdueRecords, reservations>>
        /\ Len(loans') >= Len(loans)
        /\ \A i \in DOMAIN loans :
              /\ loans[i].returnedAt # NULL => loans'[i] = loans[i]
              /\ loans'[i] # loans[i] =>
                    loans'[i] = [loans[i] EXCEPT !.returnedAt = now] ]_vars

\* A second returnBook on a returned loan has been refused.
C19_Witness ==
    /\ last.op = "returnBook"
    /\ last.result = "ALREADY_RETURNED"
    /\ loans # <<>>
    /\ \A i \in DOMAIN loans : loans[i].returnedAt # NULL

\* The loans of user u that are not returned.
ActiveLoansOfUser(u) ==
    { i \in DOMAIN loans : loans[i].userId = u /\ loans[i].returnedAt = NULL }

\* C20: createLoan(userId, copyId) reports the first guard that fails, in
\* the order USER_NOT_FOUND (user absent), LOAN_LIMIT_EXCEEDED with limit
\* and currentCount (active loans >= loanLimit), COPY_NOT_FOUND (copy
\* absent), BOOK_NOT_AVAILABLE (copy not AVAILABLE).
C20_CreateLoanGuardOrder ==
    [][ \A u \in UserIds, c \in CopyIds :
          CreateLoan(u, c) =>
            IF u \notin {"u1", "u2", "u3", "u4"}
            THEN last'.result = "USER_NOT_FOUND"
            ELSE IF Cardinality(ActiveLoansOfUser(u)) >= loanLimit[u]
            THEN /\ last'.result = "LOAN_LIMIT_EXCEEDED"
                 /\ last'.limit = loanLimit[u]
                 /\ last'.currentCount = Cardinality(ActiveLoansOfUser(u))
            ELSE IF c \notin {"c1", "c2", "c3"}
            THEN last'.result = "COPY_NOT_FOUND"
            ELSE IF copies[c] # "AVAILABLE"
            THEN last'.result = "BOOK_NOT_AVAILABLE"
            ELSE last'.result = "ok" ]_vars

\* A user at the limit has been refused with LOAN_LIMIT_EXCEEDED{limit,
\* currentCount} while the copies that are not AVAILABLE would also have
\* stopped the loan.
C20_Witness ==
    /\ last.op = "createLoan"
    /\ last.result = "LOAN_LIMIT_EXCEEDED"
    /\ last.limit = 1
    /\ last.currentCount = 1
    /\ \E c \in Copies : copies[c] = "BORROWED"

\* C21: a successful createLoan(userId, copyId) persists exactly one new
\* loan with that userId and copyId, borrowedAt = now, dueDate = now + 14
\* days and returnedAt = null, and leaves the copy BORROWED; no other loan
\* and no other copy changes.
C21_CreateLoanEffect ==
    [][ \A u \in UserIds, c \in CopyIds :
          (CreateLoan(u, c) /\ last'.result = "ok") =>
            /\ loans' = Append(loans,
                  [id |-> Len(loans) + 1, userId |-> u, bookCopyId |-> c,
                   borrowedAt |-> now,
                   dueDate |-> now + 14 * TicksPerDay,
                   returnedAt |-> NULL])
            /\ copies' = [copies EXCEPT ![c] = "BORROWED"]
            /\ last'.loan = loans'[Len(loans')] ]_vars

\* C22: if the copy-status update to BORROWED fails after the loan row was
\* created, createLoan returns VALIDATION_ERROR and the loan is not
\* committed: the store holds no active loan created by that call.
C22_FailedLoanNotCommitted ==
    [][ \A u \in UserIds, c \in CopyIds :
          (CreateLoanStore(u, c, "updateCopy") /\ last'.fault = "updateCopy")
            => /\ last'.result = "VALIDATION_ERROR"
               /\ \A i \in DOMAIN loans' :
                     i \notin DOMAIN loans => loans'[i].returnedAt # NULL
               /\ copies' = copies ]_vars

\* What createLoan(u, c) returns when the store call f fails.
AdmissionResult(u, c, f) ==
    IF CreateLoanResult(u, c) # "ok" THEN CreateLoanResult(u, c)
    ELSE IF f = "updateCopy" THEN "VALIDATION_ERROR"
    ELSE "ok"

\* The loans and the copies that createLoan(u, c) leaves when the store
\* call f fails.
AdmissionLoans(u, c) ==
    IF CreateLoanResult(u, c) # "ok" THEN loans
    ELSE LoanCreate(loans, u, c,
                    now + DEFAULT_LOAN_DURATION_DAYS * TicksPerDay, now)

AdmissionCopies(u, c, f) ==
    IF CreateLoanResult(u, c) = "ok" /\ f = "none"
    THEN [copies EXCEPT ![c] = "BORROWED"]
    ELSE copies

CreatedActiveLoan(p) ==
    /\ calls[p].op = "createLoan"
    /\ calls[p].created # 0
    /\ loans[calls[p].created].returnedAt = NULL

\* C24: of two concurrent createLoan calls for the same AVAILABLE copy, at
\* most one creates a loan.
C24_OneLoanPerCopyRace ==
    \A p, q \in Callers :
        (p # q /\ calls[p].target = calls[q].target)
            => ~(CreatedActiveLoan(p) /\ CreatedActiveLoan(q))

\* C25: of two concurrent createLoan calls of one user for different
\* copies, made while the user holds loanLimit - 1 active loans, at most
\* one succeeds.
C25_LimitRace ==
    \A p, q \in Callers :
        ( /\ p # q
          /\ calls[p].userId = calls[q].userId
          /\ calls[p].target # calls[q].target
          /\ calls[p].userId \in Users
          /\ calls[p].count = loanLimit[calls[p].userId] - 1
          /\ calls[q].count = loanLimit[calls[p].userId] - 1 )
            => ~(CreatedActiveLoan(p) /\ CreatedActiveLoan(q))

\* The call of p is a createReservation that has inserted a reservation
\* which is still active.
CreatedActiveReservation(p) ==
    /\ calls[p].op = "createReservation"
    /\ calls[p].created # 0
    /\ reservations[calls[p].created].status \in ActiveStatuses

\* C26: of two concurrent createReservation calls for the same (userId,
\* bookId), at most one creates a reservation: the pair never has two
\* active reservations.
C26_OneReservationPerPairRace ==
    \A p, q \in Callers :
        (p # q /\ calls[p].userId = calls[q].userId
               /\ calls[p].target = calls[q].target)
            => ~(CreatedActiveReservation(p) /\ CreatedActiveReservation(q))

\* C27: two concurrent createReservation calls by different users for the
\* same book give their new reservations different queue positions.
C27_DistinctPositionsRace ==
    \A p, q \in Callers :
        ( /\ p # q
          /\ calls[p].userId # calls[q].userId
          /\ calls[p].target = calls[q].target
          /\ CreatedActiveReservation(p)
          /\ CreatedActiveReservation(q) )
            => reservations[calls[p].created].queuePosition
                  # reservations[calls[q].created].queuePosition

\* The call of p is a returnBook of loan id that has written returnedAt.
WroteReturnedAt(p, id) ==
    /\ calls[p].op = "returnBook"
    /\ calls[p].loanId = id
    /\ calls[p].created # 0

\* C29: of two concurrent returnBook calls for the same active loan, at
\* most one writes returnedAt and returns success, and the loan gets at
\* most one overdue record.
C29_ReturnRace ==
    \A id \in DOMAIN loans :
        /\ \A p, q \in Callers :
              p # q => ~(WroteReturnedAt(p, id) /\ WroteReturnedAt(q, id))
        /\ Cardinality(RecordsOfLoan(id)) <= 1

\* C30: if returnBook returns an error, the loan's returnedAt is unchanged:
\* a failed update of the copy status does not leave the loan marked as
\* returned.
C30_FailedReturnLeavesLoan ==
    [][ \A id \in 1..MaxLoans, f \in ReturnBookFaults :
          (ReturnBookStore(id, f) /\ last'.result \notin {"ok", "exception"})
            => loans' = loans ]_vars


\* C28: the failure of the overdue record is the only failure of a store
\* call that an operation absorbs: when updateStatus fails while
\* processReturnedBook promotes, or while the sweep expires or promotes, the
\* operation does not return a success value, and expiredCount counts only
\* the reservations whose status the sweep changed to EXPIRED.
C28_OnlyOverdueFailureAbsorbed ==
    [][ /\ \A b \in Books :
              (ProcessReturnedBookStore(b, "updateStatus")
                  /\ last'.fault = "updateStatus") => last'.result # "ok"
        /\ \A f \in ExpireFaults \ {"none"} :
              (ExpireOverdueReservationsStore(f) /\ last'.fault = f)
                  => last'.result # "ok"
        /\ (last'.op = "expireOverdueReservations" /\ last'.result = "ok")
              => last'.expiredCount =
                    Cardinality({ i \in DOMAIN reservations :
                        /\ reservations[i].status # "EXPIRED"
                        /\ reservations'[i].status = "EXPIRED" }) ]_vars


\* C31: no operation changes the queuePosition, userId, bookId or reservedAt
\* of an existing reservation, and no reservation is deleted; notifiedAt and
\* expiresAt change only when the reservation is promoted to NOTIFIED, so
\* expiring or cancelling a reservation leaves them as they were.
C31_ReservationFrame ==
    [][ \A i \in DOMAIN reservations :
          /\ i \in DOMAIN reservations'
          /\ reservations'[i].queuePosition = reservations[i].queuePosition
          /\ reservations'[i].userId = reservations[i].userId
          /\ reservations'[i].bookId = reservations[i].bookId
          /\ reservations'[i].reservedAt = reservations[i].reservedAt
          /\ reservations'[i].status \in {"EXPIRED", "CANCELLED"}
                => /\ reservations'[i].notifiedAt = reservations[i].notifiedAt
                   /\ reservations'[i].expiresAt = reservations[i].expiresAt
          /\ ( \/ reservations'[i].notifiedAt # reservations[i].notifiedAt
               \/ reservations'[i].expiresAt # reservations[i].expiresAt )
                => reservations'[i].status = "NOTIFIED" ]_vars

\* The sweep has expired a reservation that keeps the notifiedAt and the
\* expiresAt of its promotion, and a reservation made later than another is
\* in the table.
C31_Witness ==
    /\ last.op = "expireOverdueReservations"
    /\ \E i \in DOMAIN reservations :
          /\ reservations[i].status = "EXPIRED"
          /\ reservations[i].notifiedAt # NULL
          /\ reservations[i].expiresAt =
                reservations[i].notifiedAt
                    + RESERVATION_EXPIRY_DAYS * TicksPerDay
    /\ \E i, j \in DOMAIN reservations :
          reservations[i].reservedAt < reservations[j].reservedAt


GuardErrors ==
    [createLoan |-> {"USER_NOT_FOUND", "LOAN_LIMIT_EXCEEDED",
                     "COPY_NOT_FOUND", "BOOK_NOT_AVAILABLE"},
     createLoanWithReceipt |-> {"USER_NOT_FOUND", "LOAN_LIMIT_EXCEEDED",
                                "COPY_NOT_FOUND", "BOOK_NOT_AVAILABLE"},
     returnBook |-> {"LOAN_NOT_FOUND", "ALREADY_RETURNED"},
     createReservation |-> {"USER_NOT_FOUND", "BOOK_NOT_FOUND",
                            "ALREADY_RESERVED", "BOOK_AVAILABLE"},
     cancelReservation |-> {"RESERVATION_NOT_FOUND"}]

\* C33: an operation rejected by a guard leaves the whole store unchanged:
\* no loan, copy, reservation or overdue record is created or modified.
C33_RejectionLeavesStore ==
    [][ ( /\ last'.op \in DOMAIN GuardErrors
          /\ last'.result \in GuardErrors[last'.op] )
            => UNCHANGED <<loans, copies, reservations, overdueRecords>> ]_vars

\* A reservation has been refused because a copy is AVAILABLE, with a loan
\* that was returned and a reservation in the store.
C33_Witness ==
    /\ last.op = "createReservation"
    /\ last.result = "BOOK_AVAILABLE"
    /\ loans # <<>>
    /\ reservations # <<>>


\* C34: no reservation reaches FULFILLED; createLoan, createLoanWithReceipt
\* and returnBook change no reservation, and a NOTIFIED reservation leaves
\* that status only by cancelReservation, to CANCELLED, or by the expiry
\* sweep, to EXPIRED.
C34_NeverFulfilled ==
    [][ /\ \A i \in DOMAIN reservations' :
              reservations'[i].status # "FULFILLED"
        /\ last'.op \in {"createLoan", "createLoanWithReceipt", "returnBook"}
              => reservations' = reservations
        /\ \A i \in DOMAIN reservations :
              ( /\ reservations[i].status = "NOTIFIED"
                /\ reservations'[i].status # "NOTIFIED" )
                  => \/ /\ last'.op = "cancelReservation"
                        /\ reservations'[i].status = "CANCELLED"
                     \/ /\ last'.op = "expireOverdueReservations"
                        /\ reservations'[i].status = "EXPIRED" ]_vars

\* The notified patron has borrowed a copy of the book, and the reservation
\* is still NOTIFIED.
C34_Witness ==
    /\ last.op \in {"createLoan", "createLoanWithReceipt"}
    /\ last.result = "ok"
    /\ \E i \in DOMAIN reservations :
          /\ reservations[i].status = "NOTIFIED"
          /\ reservations[i].userId = last.loan.userId
          /\ reservations[i].bookId = CopyBook[last.loan.bookCopyId]


\* C35: every operation terminates once its store calls return: a request
\* that has started returns to its caller, and the sweep reads the list of
\* expired reservations once and takes each of them once.
C35_Terminates ==
    /\ \A p \in Callers : (calls[p].pc # "idle") ~> (calls[p].pc = "idle")
    /\ \A p \in Sweepers : (sweeps[p].pc # "idle") ~> (sweeps[p].pc = "idle")
    /\ [][ \A p \in Sweepers :
              (sweeps[p].pc # "idle" /\ sweeps'[p].pc # "idle")
                => /\ sweeps'[p].expiredReservations
                        = sweeps[p].expiredReservations
                   /\ sweeps'[p].todo \subseteq sweeps[p].todo ]_vars

\* A sweep has gone through a list of expired reservations and is about to
\* return while a request is still being served.
C35_Witness ==
    /\ sweeps["s1"].pc = "done"
    /\ sweeps["s1"].expiredReservations # {}
    /\ sweeps["s1"].todo = {}
    /\ \E p \in Callers : calls[p].pc \notin {"idle", "done"}


\* C36: between operations, whatever the store calls of createLoan,
\* createLoanWithReceipt and returnBook have returned, a copy is BORROWED
\* if and only if exactly one loan with returnedAt = null references it,
\* and a copy that was lent and has no active loan is AVAILABLE.
C36_BorrowedIffActiveLoan ==
    \A c \in Copies :
        /\ copies[c] = "BORROWED" <=> Cardinality(ActiveLoansOfCopy(c)) = 1
        /\ ( /\ ActiveLoansOfCopy(c) = {}
             /\ \E i \in DOMAIN loans : loans[i].bookCopyId = c )
               => copies[c] = "AVAILABLE"


\* C37: promotion respects arrival order: of two reservations of the same
\* book, the one created later is never promoted to NOTIFIED while the one
\* created earlier is still PENDING.
C37_PromotionInArrivalOrder ==
    [][ \A a, b \in DOMAIN reservations :
          ( /\ a < b
            /\ reservations[a].reservedAt <= reservations[b].reservedAt
            /\ reservations[a].bookId = reservations[b].bookId
            /\ reservations[b].status = "PENDING"
            /\ reservations'[b].status = "NOTIFIED" )
              => reservations'[a].status # "PENDING" ]_vars


\* C38: no promotion is lost: when the return use case (returnBook, then
\* processReturnedBook for the book of the copy) runs concurrently with a
\* createReservation for the same book, once both have ended the book never
\* has a PENDING reservation while one of its copies is AVAILABLE and none
\* of its reservations is NOTIFIED.
C38_NoLostPromotion ==
    CallsIdle =>
        \A b \in Books :
            ( /\ \E i \in DOMAIN reservations :
                    /\ reservations[i].bookId = b
                    /\ reservations[i].status = "PENDING"
              /\ HasAvailableCopy(copies, b) )
                => \E j \in DOMAIN reservations :
                      /\ reservations[j].bookId = b
                      /\ reservations[j].status = "NOTIFIED"


\* C39: a promotion never revives a cancelled reservation: no reservation
\* goes from CANCELLED to NOTIFIED, also when cancelReservation runs
\* between the read and the write of processReturnedBook or of the sweep.
C39_NoRevival ==
    [][ \A i \in DOMAIN reservations :
          ~( /\ reservations[i].status = "CANCELLED"
             /\ reservations'[i].status = "NOTIFIED" ) ]_vars


\* C40: every waiting patron is eventually served: while
\* processReturnedBook keeps being invoked for the book and the store
\* updates succeed, a PENDING reservation that is not cancelled eventually
\* becomes NOTIFIED.
C40_EventuallyServed ==
    \A u \in Users :
        (\E i \in DOMAIN reservations :
            /\ reservations[i].userId = u
            /\ reservations[i].status = "PENDING")
        ~> (\E i \in DOMAIN reservations :
            /\ reservations[i].userId = u
            /\ reservations[i].status = "NOTIFIED")

====
